---- MODULE Spec2Model ----
(***************************************************************************)
(* nextdns-monitor: the paginated log fetcher (nextdns_logs.py), the       *)
(* daily run with its aggregation and notification (main.py) and the       *)
(* streaming client (nextdns_stream.py), as state machines.                *)
(***************************************************************************)
EXTENDS Integers, Sequences, FiniteSets, TLC

VARIABLES
    \* ---- main() and NextDNSLogFetcher.fetch_logs ----
    pc,              \* where the run is: "idle", "fetching", "returned", "raised", "analyze", "finally", "exit_ok", "exit_error"
    caller,          \* "main" (main -> fetch_logs_for_previous_day) or "direct" (fetch_logs called on its own)
    max_pages,       \* the max_pages argument: [given |-> FALSE] for None, else [given |-> TRUE, n |-> number]
    config,          \* [critical_categories, warning_domains, threshold] read from the environment
    params_cursor,   \* params["cursor"]: Absent until the first truthy cursor is stored
    cursor,          \* local cursor
    page,            \* local page
    all_logs,        \* local all_logs
    hist,            \* one entry per request sent: what went out, what came back, what the loop did next
    yesterday_logs,  \* the list fetch_logs returned (meaningful once it returned)
    error,           \* the exception in flight or that ended the run, "none" if there is none
    outbox,          \* the emails handed to SMTP
    session_closed,  \* fetcher._session was closed
    \* ---- NextDNSStreamClient.stream ----
    s_pc,            \* "idle", "connect", "reading", "yielded", "sleeping", "closed"
    s_params,        \* the params argument of stream()
    last_event_id,   \* self._last_event_id
    query,           \* the query of the latest connection attempt, and how many events had been yielded before it
    attempts,        \* number of connection attempts made
    yielded,         \* event ids yielded to the consumer, in order
    dropped,         \* why the latest connection ended, "none" while none has
    slept,           \* retry_delay was slept since the latest connection ended
    \* ---- the aggregation functions applied on their own ----
    a_pc,            \* "idle", "input", "done"
    a_in,            \* the arguments
    a_out            \* the result

fetchVars  == <<pc, caller, max_pages, config, params_cursor, cursor, page, all_logs, hist,
                yesterday_logs, error, outbox, session_closed>>
streamVars == <<s_pc, s_params, last_event_id, query, attempts, yielded, dropped, slept>>
aggVars    == <<a_pc, a_in, a_out>>
vars       == <<fetchVars, streamVars, aggVars>>

(***************************************************************************)
(* Values                                                                  *)
(***************************************************************************)
\* Python's None, and a key that is not in a dict
None   == "<None>"
Absent == "<absent>"

\* Requests sent by one fetch_logs call in the model
MaxRequests == 4

\* Python truthiness of the values a cursor or an event id can take
Truthy(v) == v # None /\ v # ""

\* Lexicographic order of the strings that occur in the model
StrOrder == <<"", "Ads", "Ads, Tracker", "Tracker", "laptop", "phone", "x.com", "y.com", "z.com">>
StrRank(s) == CHOOSE i \in 1..Len(StrOrder) : StrOrder[i] = s

RECURSIVE SumSeq(_)
SumSeq(s) == IF s = <<>> THEN 0 ELSE Head(s) + SumSeq(Tail(s))

RECURSIVE Concat(_)
Concat(ss) == IF ss = <<>> THEN <<>> ELSE Head(ss) \o Concat(Tail(ss))

SelectIdx(s, Test(_)) == LET F[i \in 0..Len(s)] ==
                                 IF i = 0 THEN <<>>
                                 ELSE IF Test(i) THEN Append(F[i-1], i) ELSE F[i-1]
                         IN  F[Len(s)]

(***************************************************************************)
(* The API's raw log objects (timestamps are minutes of the day, UTC; the  *)
(* API writes them in one fixed-width ISO-8601 "Z" form, so that string    *)
(* order and time order agree)                                             *)
(***************************************************************************)
NoDevice == [has |-> FALSE, name |-> None]
Device(n) == [has |-> TRUE, name |-> n]

RawA == [timestamp |-> 600, device |-> Device("phone"), root |-> "x.com",
         reasons |-> <<"Ads">>, status |-> "blocked"]
RawB == [timestamp |-> 720, device |-> Device("phone"), root |-> "y.com",
         reasons |-> <<>>, status |-> "default"]
RawC == [timestamp |-> 610, device |-> Device(None), root |-> None,
         reasons |-> <<"Ads", "Tracker">>, status |-> "blocked"]
RawD == [timestamp |-> 610, device |-> NoDevice, root |-> "x.com",
         reasons |-> <<"Ads">>, status |-> "default"]

\* The "data" arrays a 200 response carries in the model
Pages == {<<>>, <<RawA, RawB>>, <<RawC, RawD>>}
\* meta.pagination.cursor of a 200 response: null/absent, empty, or a token
Cursors == {None, "", "c1", "c2"}
\* Status codes: success, rate limit, and two that raise_for_status rejects
Statuses == {200, 429, 404, 500}

(***************************************************************************)
(* nextdns_logs.py                                                         *)
(***************************************************************************)
\* ", ".join(names)
RECURSIVE JoinComma(_)
JoinComma(names) ==
    IF names = <<>> THEN ""
    ELSE IF Len(names) = 1 THEN names[1]
    ELSE names[1] \o ", " \o JoinComma(Tail(names))

\* The body of the for loop: one raw object to one NextDNSLog
DecodeLog(obj) ==
    [timestamp   |-> obj.timestamp,
     device_name |-> IF obj.device.has THEN obj.device.name ELSE "",
     root        |-> obj.root,
     reason_name |-> IF obj.reasons # <<>> THEN JoinComma(obj.reasons) ELSE "",
     status      |-> obj.status]

\* (mutant) the page's records are taken last to first
DecodePage_Reversed(data) == [i \in 1..Len(data) |-> DecodeLog(data[Len(data) + 1 - i])]

\* for obj in data: all_logs.append(NextDNSLog(...))
DecodePage(data) == [i \in 1..Len(data) |-> DecodeLog(data[i])]

\* What goes out with a request: params["cursor"] after "if cursor: params['cursor'] = cursor"
SentCursor == IF Truthy(cursor) THEN cursor ELSE params_cursor

\* status 0: no answer at all; body: "json", "malformed" or "none"
HistEntry(status, body, data, respCursor, did) ==
    [sent |-> SentCursor, page |-> page, logs |-> all_logs, status |-> status, body |-> body,
     data |-> data, cursor |-> respCursor, did |-> did]

\* (mutant) the rate-limited attempt is counted as a fetched page
OnRateLimit_CountsPage ==
    /\ hist' = Append(hist, HistEntry(429, "none", <<>>, None, "sleep_rate_limit"))
    /\ params_cursor' = SentCursor
    /\ page' = page + 1
    /\ UNCHANGED <<pc, cursor, all_logs, yesterday_logs, error>>

\* status_code == 429: sleep delay_on_rate_limit, continue
OnRateLimit ==
    /\ hist' = Append(hist, HistEntry(429, "none", <<>>, None, "sleep_rate_limit"))
    /\ params_cursor' = SentCursor
    /\ UNCHANGED <<pc, cursor, page, all_logs, yesterday_logs, error>>

\* (mutant) an error answer ends the pagination and the records so far are returned
OnHttpError_ReturnsPartial(status) ==
    /\ hist' = Append(hist, HistEntry(status, "none", <<>>, None, "return"))
    /\ params_cursor' = SentCursor
    /\ yesterday_logs' = all_logs
    /\ pc' = IF caller = "main" THEN "analyze" ELSE "returned"
    /\ UNCHANGED <<cursor, page, all_logs, error>>

\* raise_for_status() on a 4xx/5xx answer: HTTPError leaves fetch_logs
OnHttpError(status) ==
    /\ hist' = Append(hist, HistEntry(status, "none", <<>>, None, "raise"))
    /\ params_cursor' = SentCursor
    /\ error' = "HTTPError"
    /\ pc' = IF caller = "main" THEN "finally" ELSE "raised"
    /\ UNCHANGED <<cursor, page, all_logs, yesterday_logs>>

\* self._session.get raises (connection refused, timeout): nothing catches it
OnTransportError ==
    /\ hist' = Append(hist, HistEntry(0, "none", <<>>, None, "raise"))
    /\ params_cursor' = SentCursor
    /\ error' = "ConnectionError"
    /\ pc' = IF caller = "main" THEN "finally" ELSE "raised"
    /\ UNCHANGED <<cursor, page, all_logs, yesterday_logs>>

\* resp.json() raises on a 200 answer whose body is not JSON
OnBadBody ==
    /\ hist' = Append(hist, HistEntry(200, "malformed", <<>>, None, "raise"))
    /\ params_cursor' = SentCursor
    /\ error' = "JSONDecodeError"
    /\ pc' = IF caller = "main" THEN "finally" ELSE "raised"
    /\ UNCHANGED <<cursor, page, all_logs, yesterday_logs>>

\* The exceptions that leave fetch_logs
FetchErrors == {"HTTPError", "ConnectionError", "JSONDecodeError"}

\* "if not cursor: break" and "if max_pages is not None and page >= max_pages: break"
StopsAfter(respCursor, newPage) ==
    \/ ~Truthy(respCursor)
    \/ (max_pages.given /\ newPage >= max_pages.n)

\* A 200 answer: decode the page, take the cursor, count the page, stop or pace
OnPage(data, respCursor) ==
    LET logs == all_logs \o DecodePage(data)
        stop == StopsAfter(respCursor, page + 1)
    IN  /\ hist' = Append(hist, HistEntry(200, "json", data, respCursor,
                                          IF stop THEN "return" ELSE "sleep_pacing"))
        /\ params_cursor' = SentCursor
        /\ all_logs' = logs
        /\ cursor' = respCursor
        /\ page' = page + 1
        /\ IF stop
           THEN /\ yesterday_logs' = logs
                /\ pc' = IF caller = "main" THEN "analyze" ELSE "returned"
           ELSE UNCHANGED <<yesterday_logs, pc>>
        /\ UNCHANGED error

\* One turn of fetch_logs' while loop: a request and the handling of its answer
FetchRequest ==
    /\ pc = "fetching"
    /\ Len(hist) < MaxRequests
    /\ \/ OnTransportError
       \/ \E status \in Statuses :
             \/ status = 429 /\ OnRateLimit
             \/ status \in {404, 500} /\ OnHttpError(status)
             \/ status = 200 /\ OnBadBody
             \/ status = 200 /\ \E data \in Pages, c \in Cursors : OnPage(data, c)
    /\ UNCHANGED <<caller, max_pages, config, outbox, session_closed>>
    /\ UNCHANGED <<streamVars, aggVars>>

(***************************************************************************)
(* main.py: the aggregation functions                                      *)
(***************************************************************************)
\* pd.DataFrame([asdict(l) for l in logs]): no rows gives a frame without columns
DataFrame(logs) == [has_columns |-> logs # <<>>, rows |-> logs]

\* pd.to_datetime of an ISO "Z" string: an instant, tz-aware in UTC
ToDatetime(t) == [utc |-> t, tz |-> "UTC"]
\* .dt.tz_convert(tz): the same instant, shown in tz
TzConvert(d, tz) == [utc |-> d.utc, tz |-> tz]

RECURSIVE SortInts(_)
SortInts(S) == IF S = {} THEN <<>>
               ELSE LET m == CHOOSE x \in S : \A y \in S : x <= y
                    IN  <<m>> \o SortInts(S \ {m})

MinOf(S) == CHOOSE x \in S : \A y \in S : x <= y
MaxOf(S) == CHOOSE x \in S : \A y \in S : x >= y

\* The position of a key tuple in groupby's sorted key order
RankBase == Len(StrOrder) + 1
RECURSIVE KeyRank(_)
KeyRank(k) == IF k = <<>> THEN 0
              ELSE StrRank(k[Len(k)]) + RankBase * KeyRank(SubSeq(k, 1, Len(k) - 1))

KeyOf(row, group_fields) == [i \in 1..Len(group_fields) |-> row[group_fields[i]]]

\* groupby(group_fields) with its default dropna=True: a row with a null key is in no group
InSomeGroup(row, group_fields) == \A i \in 1..Len(group_fields) : row[group_fields[i]] # None

FieldOr(k, group_fields, f) ==
    IF \E i \in 1..Len(group_fields) : group_fields[i] = f
    THEN k[CHOOSE i \in 1..Len(group_fields) : group_fields[i] = f]
    ELSE Absent

\* process_result_info: groupby, agg(min, max, size), reset_index, to_datetime, tz_convert.
\* With no group at all the first_seen column is empty, to_datetime gives it the
\* tz-naive dtype datetime64[ns], and tz_convert raises TypeError.
process_result_info(result_info, group_fields, timezone) ==
    LET kept   == {i \in 1..Len(result_info) : InSomeGroup(result_info[i], group_fields)}
        keys   == {KeyOf(result_info[i], group_fields) : i \in kept}
        byRank == SortInts({KeyRank(k) : k \in keys})
        keyAt(n) == CHOOSE k \in keys : KeyRank(k) = byRank[n]
        stamps(k) == {result_info[i].timestamp :
                         i \in {j \in kept : KeyOf(result_info[j], group_fields) = k}}
        group(k) ==
            [reason_name |-> FieldOr(k, group_fields, "reason_name"),
             device_name |-> FieldOr(k, group_fields, "device_name"),
             root        |-> FieldOr(k, group_fields, "root"),
             first_seen  |-> TzConvert(ToDatetime(MinOf(stamps(k))), timezone),
             last_seen   |-> TzConvert(ToDatetime(MaxOf(stamps(k))), timezone),
             count       |-> Cardinality({j \in kept : KeyOf(result_info[j], group_fields) = k})]
    IN  IF keys = {}
        THEN [error |-> "TypeError", rows |-> <<>>]
        ELSE [error |-> "none", rows |-> [n \in 1..Len(byRank) |-> group(keyAt(n))]]

\* sort_values(["device_name", "timestamp"]): stable, null device names last
MinutesPerDay == 24 * 60
DeviceRank(d) == IF d = None THEN RankBase ELSE StrRank(d)
SortKey(logs, i) == (DeviceRank(logs[i].device_name) * MinutesPerDay + logs[i].timestamp)
                        * (Len(logs) + 1) + i
SortByDeviceAndTime(logs) ==
    LET order == SortInts({SortKey(logs, i) : i \in 1..Len(logs)})
    IN  [n \in 1..Len(logs) |-> logs[order[n] % (Len(logs) + 1)]]

\* groupby("device_name")["timestamp"].shift(1): the row before in the same group, 0 if none.
\* Rows whose device_name is null are in no group.
PrevInGroup(sorted, i) ==
    LET before == {j \in 1..(i - 1) : /\ sorted[i].device_name # None
                                     /\ sorted[j].device_name = sorted[i].device_name}
    IN  IF before = {} THEN 0 ELSE MaxOf(before)

\* groupby("device_name")["timestamp"].diff() in minutes, fillna(0)
TimeDiff(sorted, i) ==
    IF PrevInGroup(sorted, i) = 0 THEN 0
    ELSE sorted[i].timestamp - sorted[PrevInGroup(sorted, i)].timestamp

\* (mutant) a difference equal to the threshold counts as a gap
IsGapRow_AtLeast(sorted, i, threshold_minutes) == TimeDiff(sorted, i) >= threshold_minutes

\* logs[logs["time_diff"] > threshold_minutes]
IsGapRow(sorted, i, threshold_minutes) == TimeDiff(sorted, i) > threshold_minutes

gap_analysis(df, timezone, threshold_minutes) ==
    IF df.rows = <<>> \/ ~df.has_columns THEN <<>>
    ELSE LET sorted == SortByDeviceAndTime(df.rows)
             at     == SelectIdx(sorted, LAMBDA i : IsGapRow(sorted, i, threshold_minutes))
         IN  [n \in 1..Len(at) |->
                [device_name |-> sorted[at[n]].device_name,
                 gap_start   |-> TzConvert(ToDatetime(sorted[PrevInGroup(sorted, at[n])].timestamp), timezone),
                 gap_end     |-> TzConvert(ToDatetime(sorted[at[n]].timestamp), timezone),
                 gap_duration_minutes |-> TimeDiff(sorted, at[n])]]

\* head(5) of the per-device site counts
TopN == 5

\* sorted(devices): Python cannot order None against a str
SortedRaises(devices) == None \in devices /\ devices # {None}

\* site_counts for one device: groupby('root').size() (null roots are in no group),
\* sort_values(ascending=False), head(5).  Equal counts are left in root order.
SiteCounts(rows, device) ==
    LET mine   == {i \in 1..Len(rows) : rows[i].device_name = device /\ device # None}
        roots  == {rows[i].root : i \in {j \in mine : rows[j].root # None}}
        cnt(r) == Cardinality({i \in mine : rows[i].root = r})
        key(r) == (Len(rows) - cnt(r)) * RankBase + StrRank(r)
        order  == SortInts({key(r) : r \in roots})
        full   == [n \in 1..Len(order) |->
                      LET r == CHOOSE x \in roots : key(x) = order[n] IN <<r, cnt(r)>>]
    IN  SubSeq(full, 1, IF Len(full) < TopN THEN Len(full) ELSE TopN)

\* analyze_top_categories_and_sites
analyze_top_categories_and_sites(df) ==
    IF df.rows = <<>> THEN [error |-> "none", kind |-> "no_data", lines |-> <<>>]
    ELSE LET allowed == SelectSeq(df.rows, LAMBDA r : r.status # "blocked")
             devices == {allowed[i].device_name : i \in 1..Len(allowed)}
             named   == SortInts({StrRank(d) : d \in devices \ {None}})
             shown   == SelectSeq(named, LAMBDA n : SiteCounts(allowed, StrOrder[n]) # <<>>)
         IN  IF allowed = <<>> THEN [error |-> "none", kind |-> "no_allowed", lines |-> <<>>]
             ELSE IF SortedRaises(devices) THEN [error |-> "TypeError", kind |-> "none", lines |-> <<>>]
             ELSE [error |-> "none", kind |-> "sites",
                   lines |-> [n \in 1..Len(shown) |->
                                 [device |-> StrOrder[shown[n]],
                                  sites  |-> SiteCounts(allowed, StrOrder[shown[n]])]]]

(***************************************************************************)
(* main.py: notify_if_necessary                                            *)
(***************************************************************************)
SubjectCritical == "NextDNS Suspicious Activity Detected"
SubjectWarning  == "NextDNS Warnings Detected"
SubjectGap      == "NextDNS Stoppages Detected"
SubjectNothing  == "No Suspicious NextDNS Activity"

\* One line of the body: what it is and the row of its table it renders (0: a heading)
Line(kind, idx) == [kind |-> kind, idx |-> idx]
DetailLines(kind, info) == [i \in 1..Len(info) |-> Line(kind, i)]

\* (mutant) a later section overwrites the subject of an earlier one
ChooseSubject_LastWins(critical_info, warning_info, gap_info) ==
    IF gap_info # <<>> THEN SubjectGap
    ELSE IF warning_info # <<>> THEN SubjectWarning
    ELSE IF critical_info # <<>> THEN SubjectCritical
    ELSE SubjectNothing

\* the three "if not subject" steps, in the order the function takes them
ChooseSubject(critical_info, warning_info, gap_info) ==
    IF critical_info # <<>> THEN SubjectCritical
    ELSE IF warning_info # <<>> THEN SubjectWarning
    ELSE IF gap_info # <<>> THEN SubjectGap
    ELSE SubjectNothing

\* email_lines before the analytics block is appended
SectionLines(critical_info, warning_info, gap_info) ==
    LET c == IF critical_info # <<>>
             THEN <<Line("critical_head", 0)>> \o DetailLines("critical", critical_info) ELSE <<>>
        w == IF warning_info # <<>>
             THEN <<Line("warning_head", 0)>> \o DetailLines("warning", warning_info) ELSE <<>>
        g == IF gap_info # <<>>
             THEN <<Line("gap_head", 0)>> \o DetailLines("gap", gap_info) ELSE <<>>
    IN  IF c \o w \o g = <<>> THEN <<Line("nothing", 0)>> ELSE c \o w \o g

\* notify_if_necessary: subject, body, then the SMTP hand-over (which may fail)
notify_if_necessary(critical_info, warning_info, gap_info, df, smtp_ok) ==
    LET report == analyze_top_categories_and_sites(df)
        msg    == [subject   |-> ChooseSubject(critical_info, warning_info, gap_info),
                   lines     |-> Append(SectionLines(critical_info, warning_info, gap_info),
                                        Line("analytics", 0)),
                   analytics |-> [kind |-> report.kind, lines |-> report.lines]]
    IN  IF report.error # "none" THEN [error |-> report.error, sent |-> <<>>]
        ELSE IF ~smtp_ok THEN [error |-> "SMTPException", sent |-> <<>>]
        ELSE [error |-> "none", sent |-> <<msg>>]

(***************************************************************************)
(* main.py: main                                                           *)
(***************************************************************************)
\* TIMEZONE's default
Timezone == "America/New_York"

IsIn(v, values) == v # None /\ v \in values

\* Lines 28-35 of main: the first statement that raises ends the try block
RunAnalysis(logs, cfg, smtp_ok) ==
    LET df       == DataFrame(logs)
        critical == process_result_info(
                        SelectSeq(df.rows, LAMBDA r : IsIn(r.reason_name, cfg.critical_categories)),
                        <<"reason_name", "device_name", "root">>, Timezone)
        warning  == process_result_info(
                        SelectSeq(df.rows, LAMBDA r : IsIn(r.root, cfg.warning_domains)),
                        <<"device_name", "root">>, Timezone)
        gaps     == gap_analysis(df, Timezone, cfg.threshold)
    IN  IF ~df.has_columns THEN [error |-> "KeyError", sent |-> <<>>]
        ELSE IF critical.error # "none" THEN [error |-> critical.error, sent |-> <<>>]
        ELSE IF warning.error # "none" THEN [error |-> warning.error, sent |-> <<>>]
        ELSE notify_if_necessary(critical.rows, warning.rows, gaps, df, smtp_ok)

\* main after fetch_logs_for_previous_day returned: analysis and notification
MainAnalyze ==
    /\ pc = "analyze"
    /\ \E smtp_ok \in BOOLEAN :
          LET r == RunAnalysis(yesterday_logs, config, smtp_ok)
          IN  /\ error' = r.error
              /\ outbox' = outbox \o r.sent
    /\ pc' = "finally"
    /\ UNCHANGED <<caller, max_pages, config, params_cursor, cursor, page, all_logs, hist,
                   yesterday_logs, session_closed>>
    /\ UNCHANGED <<streamVars, aggVars>>

\* finally: fetcher.close(); an exception in flight then leaves main
MainFinally ==
    /\ pc = "finally"
    /\ session_closed' = TRUE
    /\ pc' = IF error = "none" THEN "exit_ok" ELSE "exit_error"
    /\ UNCHANGED <<caller, max_pages, config, params_cursor, cursor, page, all_logs, hist,
                   yesterday_logs, error, outbox>>
    /\ UNCHANGED <<streamVars, aggVars>>

(***************************************************************************)
(* nextdns_stream.py                                                       *)
(***************************************************************************)
\* Connection attempts and yielded events of one stream() call in the model
MaxAttempts == 3
MaxYield == 2

\* A dict over the keys "id" and "status"; given = FALSE is params=None
Dict(given, id, status) == [given |-> given, id |-> id, status |-> status]
NoParams == Dict(FALSE, Absent, Absent)
ParamsChoices == {NoParams, Dict(TRUE, Absent, Absent), Dict(TRUE, Absent, "blocked"),
                  Dict(TRUE, "e0", Absent)}
NoQuery == [id |-> Absent, status |-> Absent, after |-> 0]

\* event.id as sseclient gives it: None without an id field, else the field's text
EventIds == {None, "", "e1", "e2"}
\* event.data: empty, not JSON, JSON that is no object, a JSON log object
EventData == {"empty", "malformed", "not_object", "ok"}

\* _build_params
BuildParams == [id |-> IF Truthy(last_event_id) THEN last_event_id ELSE Absent,
                status |-> Absent]

\* query = self._build_params(); if params: query.update(params)
BuildQuery ==
    LET q == BuildParams
        nonEmpty == s_params.given /\ (s_params.id # Absent \/ s_params.status # Absent)
    IN  IF nonEmpty
        THEN [id     |-> IF s_params.id # Absent THEN s_params.id ELSE q.id,
              status |-> IF s_params.status # Absent THEN s_params.status ELSE q.status]
        ELSE q

\* except RequestException / except Exception: log, time.sleep(retry_delay), continue
HandleFailure(why) ==
    /\ dropped' = why
    /\ slept' = TRUE
    /\ s_pc' = "connect"

\* The top of the while loop: build the query, GET, raise_for_status
StreamConnect ==
    /\ s_pc = "connect"
    /\ attempts < MaxAttempts
    /\ attempts' = attempts + 1
    /\ query' = [id |-> BuildQuery.id, status |-> BuildQuery.status, after |-> Len(yielded)]
    /\ \E outcome \in {"ok", "refused", "bad_status"} :
          IF outcome = "ok"
          THEN s_pc' = "reading" /\ dropped' = "none" /\ slept' = FALSE
          ELSE HandleFailure(outcome)
    /\ UNCHANGED <<s_params, last_event_id, yielded>>
    /\ UNCHANGED <<fetchVars, aggVars>>

\* One event from client.events(): skipped, failing to decode, or parsed and yielded
StreamEvent ==
    /\ s_pc = "reading"
    /\ Len(yielded) < MaxYield
    /\ \E id \in EventIds, data \in EventData :
          CASE data = "empty" -> UNCHANGED <<s_pc, last_event_id, yielded, dropped, slept>>
            [] data \in {"malformed", "not_object"} ->
                  HandleFailure(data) /\ UNCHANGED <<last_event_id, yielded>>
            [] data = "ok" ->
                  /\ last_event_id' = id
                  /\ yielded' = Append(yielded, id)
                  /\ s_pc' = "yielded"
                  /\ UNCHANGED <<dropped, slept>>
    /\ UNCHANGED <<s_params, query, attempts>>
    /\ UNCHANGED <<fetchVars, aggVars>>

\* The read fails under client.events(): a RequestException
StreamReadError ==
    /\ s_pc = "reading"
    /\ HandleFailure("read_error")
    /\ UNCHANGED <<s_params, last_event_id, query, attempts, yielded>>
    /\ UNCHANGED <<fetchVars, aggVars>>

\* The server ends the stream: client.events() is exhausted, the for loop ends,
\* and control is back at the top of the while loop
StreamEnd ==
    /\ s_pc = "reading"
    /\ dropped' = "server_end"
    /\ slept' = FALSE
    /\ s_pc' = "connect"
    /\ UNCHANGED <<s_params, last_event_id, query, attempts, yielded>>
    /\ UNCHANGED <<fetchVars, aggVars>>

\* The consumer pulls the next value: the generator resumes after its yield
ConsumerNext ==
    /\ s_pc = "yielded"
    /\ s_pc' = "reading"
    /\ UNCHANGED <<s_params, last_event_id, query, attempts, yielded, dropped, slept>>
    /\ UNCHANGED <<fetchVars, aggVars>>

\* The consumer stops pulling and the generator is closed at its yield
ConsumerStop ==
    /\ s_pc = "yielded"
    /\ s_pc' = "closed"
    /\ UNCHANGED <<s_params, last_event_id, query, attempts, yielded, dropped, slept>>
    /\ UNCHANGED <<fetchVars, aggVars>>

(***************************************************************************)
(* The run: main(), or fetch_logs called on its own with any max_pages     *)
(***************************************************************************)
MaxPagesNone == [given |-> FALSE, n |-> 0]
MaxPagesChoices == {MaxPagesNone} \cup {[given |-> TRUE, n |-> k] : k \in 0..2}

Configs == [critical_categories : {{""}, {"Ads"}},
            warning_domains     : {{""}, {"x.com"}},
            threshold           : {60}]
DefaultConfig == [critical_categories |-> {""}, warning_domains |-> {""}, threshold |-> 60]

StreamIdle ==
    /\ s_pc = "idle" /\ s_params = NoParams /\ last_event_id = None /\ query = NoQuery
    /\ attempts = 0 /\ yielded = <<>> /\ dropped = "none" /\ slept = FALSE

AggIdle == a_pc = "idle" /\ a_in = <<>> /\ a_out = <<>>

Init ==
    /\ pc = "fetching"
    /\ caller \in {"main", "direct"}
    /\ max_pages \in MaxPagesChoices
    /\ config \in Configs
    /\ caller = "main" => max_pages = MaxPagesNone
    /\ caller = "direct" => config = DefaultConfig
    /\ params_cursor = Absent /\ cursor = None /\ page = 0 /\ all_logs = <<>>
    /\ hist = <<>> /\ yesterday_logs = <<>> /\ error = "none" /\ outbox = <<>>
    /\ session_closed = FALSE
    /\ StreamIdle
    /\ AggIdle

Next == FetchRequest \/ MainAnalyze \/ MainFinally

Spec == Init /\ [][Next]_vars

FetchIdle ==
    /\ pc = "idle" /\ caller = "none" /\ max_pages = MaxPagesNone /\ config = DefaultConfig
    /\ params_cursor = Absent /\ cursor = None /\ page = 0 /\ all_logs = <<>>
    /\ hist = <<>> /\ yesterday_logs = <<>> /\ error = "none" /\ outbox = <<>>
    /\ session_closed = FALSE

(***************************************************************************)
(* A consumer iterating stream(params)                                     *)
(***************************************************************************)
InitStream ==
    /\ FetchIdle
    /\ AggIdle
    /\ s_pc = "connect"
    /\ s_params \in ParamsChoices
    /\ last_event_id = None /\ query = NoQuery /\ attempts = 0 /\ yielded = <<>>
    /\ dropped = "none" /\ slept = FALSE

NextStream == StreamConnect \/ StreamEvent \/ StreamReadError \/ StreamEnd
                \/ ConsumerNext \/ ConsumerStop

SpecStream == InitStream /\ [][NextStream]_vars

(***************************************************************************)
(* The aggregation functions applied to tables of any content              *)
(***************************************************************************)
\* Rows of the tables handed to gap_analysis, process_result_info and notify_if_necessary
MaxGapLogs == 3
MaxGroupLogs == 3
MaxNotifyRows == 2

SeqsUpTo(S, n) == UNION {[1..k -> S] : k \in 0..n}

\* 10:00, 10:10, 11:10 and 12:00
GapTimes == {600, 610, 670, 720}
GapLogs == [timestamp : GapTimes, device_name : {None, "", "phone", "laptop"},
            root : {"x.com"}, reason_name : {""}, status : {"default"}]

GroupLogs == [timestamp : {600, 720}, device_name : {None, "phone"},
              root : {None, "x.com", "y.com"}, reason_name : {"Ads"}, status : {"blocked"}]

NotifyLogs == [timestamp : {600}, device_name : {None, "phone"},
               root : {"x.com"}, reason_name : {""}, status : {"blocked", "default"}]
GroupRow(root, n) ==
    [reason_name |-> "Ads", device_name |-> "phone", root |-> root,
     first_seen |-> TzConvert(ToDatetime(600), Timezone),
     last_seen |-> TzConvert(ToDatetime(720), Timezone), count |-> n]
GroupTables == {<<>>, <<GroupRow("x.com", 1)>>, <<GroupRow("x.com", 2), GroupRow("y.com", 1)>>}
GapRow == [device_name |-> "phone", gap_start |-> TzConvert(ToDatetime(610), Timezone),
           gap_end |-> TzConvert(ToDatetime(720), Timezone), gap_duration_minutes |-> 110]
GapTables == {<<>>, <<GapRow>>}

StreamAndFetchIdle == FetchIdle /\ StreamIdle

InitGap ==
    /\ StreamAndFetchIdle
    /\ a_pc = "input"
    /\ a_in \in [logs : SeqsUpTo(GapLogs, MaxGapLogs), threshold : {60}]
    /\ a_out = <<>>

\* gap_info = gap_analysis(df, timezone, threshold_minutes)
CallGapAnalysis ==
    /\ a_pc = "input"
    /\ a_out' = gap_analysis(DataFrame(a_in.logs), Timezone, a_in.threshold)
    /\ a_pc' = "done"
    /\ UNCHANGED a_in
    /\ UNCHANGED <<fetchVars, streamVars>>

SpecGap == InitGap /\ [][CallGapAnalysis]_vars

InitGroup ==
    /\ StreamAndFetchIdle
    /\ a_pc = "input"
    /\ a_in \in [logs : SeqsUpTo(GroupLogs, MaxGroupLogs)]
    /\ a_out = <<>>

\* critical_info = process_result_info(critical_results, [...], timezone_str)
CallProcessResultInfo ==
    /\ a_pc = "input"
    /\ a_out' = process_result_info(a_in.logs, <<"reason_name", "device_name", "root">>, Timezone)
    /\ a_pc' = "done"
    /\ UNCHANGED a_in
    /\ UNCHANGED <<fetchVars, streamVars>>

SpecGroup == InitGroup /\ [][CallProcessResultInfo]_vars

InitNotify ==
    /\ StreamAndFetchIdle
    /\ a_pc = "input"
    /\ a_in \in [critical_info : GroupTables, warning_info : GroupTables, gap_info : GapTables,
                 logs : SeqsUpTo(NotifyLogs, MaxNotifyRows)]
    /\ a_out = <<>>

\* notify_if_necessary(critical_info, warning_info, gap_info, df)
CallNotify ==
    /\ a_pc = "input"
    /\ \E smtp_ok \in BOOLEAN :
          a_out' = notify_if_necessary(a_in.critical_info, a_in.warning_info, a_in.gap_info,
                                       DataFrame(a_in.logs), smtp_ok)
    /\ a_pc' = "done"
    /\ UNCHANGED a_in
    /\ UNCHANGED <<fetchVars, streamVars>>

SpecNotify == InitNotify /\ [][CallNotify]_vars

(***************************************************************************)
(* Properties of fetch_logs and main (under Spec)                          *)
(***************************************************************************)
\* The state the loop is in after its i-th request
PageAfter(i)   == IF i < Len(hist) THEN hist[i + 1].page ELSE page
LogsAfter(i)   == IF i < Len(hist) THEN hist[i + 1].logs ELSE all_logs
CursorAfter(i) == IF i < Len(hist) THEN hist[i + 1].sent ELSE SentCursor
Returned == pc \in {"returned", "analyze"}
              \/ (pc \in {"finally", "exit_ok", "exit_error"} /\ error \notin FetchErrors)

\* C1: a 429 answer leaves the cursor, the page counter and the collected records as
\* they were, is followed by the delay_on_rate_limit sleep and a retry that carries the
\* same cursor (however many 429s came before), and a 200 answer to the retry is decoded.
C1_RateLimitKeepsPagination ==
    \A i \in 1..Len(hist) :
        hist[i].status = 429 =>
            /\ hist[i].did = "sleep_rate_limit"
            /\ PageAfter(i) = hist[i].page
            /\ LogsAfter(i) = hist[i].logs
            /\ CursorAfter(i) = hist[i].sent
            /\ i = Len(hist) => pc = "fetching"
            /\ (i < Len(hist) /\ hist[i + 1].status = 200 /\ hist[i + 1].body = "json") =>
                   /\ LogsAfter(i + 1) = hist[i].logs \o [n \in 1..Len(hist[i + 1].data) |->
                                                            DecodeLog(hist[i + 1].data[n])]
                   /\ PageAfter(i + 1) = hist[i].page + 1

\* a page with a cursor, two 429s on the second request, then its 200 page
C1_Witness ==
    /\ Len(hist) = 4
    /\ hist[1].status = 200 /\ hist[1].cursor = "c1"
    /\ hist[2].status = 429 /\ hist[2].sent = "c1"
    /\ hist[3].status = 429
    /\ hist[4].status = 200 /\ hist[4].data # <<>> /\ hist[4].sent = "c1"

CleanRun == ~max_pages.given
              /\ \A i \in 1..Len(hist) : hist[i].status = 200 /\ hist[i].body = "json"
FlatData == Concat([i \in 1..Len(hist) |-> hist[i].data])

\* What C2 says of a run without 429s and without max_pages, with ContinueOn(c) telling
\* which cursors of a response announce a further page
PaginationChain(ContinueOn(_)) ==
    CleanRun =>
        /\ \A i \in 1..Len(hist) :
              /\ i = 1 => hist[i].sent = Absent
              /\ ContinueOn(hist[i].cursor) =>
                    /\ hist[i].did = "sleep_pacing"
                    /\ CursorAfter(i) = hist[i].cursor
                    /\ i = Len(hist) => pc = "fetching"
              /\ ~ContinueOn(hist[i].cursor) => (i = Len(hist) /\ Returned)
        /\ Returned =>
              /\ Len(yesterday_logs) = Len(FlatData)
              /\ \A n \in 1..Len(FlatData) : yesterday_logs[n] = DecodeLog(FlatData[n])

\* C2 as stated: every non-null cursor is followed by a further request
C2_Original == PaginationChain(LAMBDA c : c # None)

\* C2: with no 429 and no max_pages, a chain of k pages whose first k-1 responses carry
\* a non-empty cursor and whose k-th carries a null, absent or empty cursor takes exactly k
\* requests, request i+1 carries the cursor of response i, and the returned list is the
\* pages' records in page order and in record order within each page.
C2_PaginationChain == PaginationChain(Truthy)

\* three pages, all with records, returned
C2_Witness ==
    /\ CleanRun /\ pc = "returned" /\ Len(hist) = 3
    /\ hist[1].cursor = "c1" /\ hist[2].cursor = "c2" /\ hist[3].cursor = None
    /\ hist[1].data = <<RawA, RawB>> /\ hist[2].data = <<RawC, RawD>> /\ hist[3].data = <<RawA, RawB>>
    /\ Len(yesterday_logs) = 6

\* C3: a null cursor ends the pagination, and with max_pages given no request is sent
\* once max_pages pages were fetched, so that the records come from at most max_pages pages.
C3_MaxPagesIsACap ==
    /\ \A i \in 1..Len(hist) :
          (hist[i].status = 200 /\ hist[i].body = "json" /\ hist[i].cursor = None) =>
              hist[i].did = "return"
    /\ max_pages.given =>
          /\ page <= max_pages.n
          /\ \A i \in 1..Len(hist) : hist[i].page < max_pages.n

\* C4: once the logs are fetched, main's analysis and notification raise nothing of
\* their own: the run gets to hand a subject and a body to SMTP.
C4_AnalysisNeverRaises ==
    (caller = "main" /\ pc \in {"finally", "exit_ok", "exit_error"}) =>
        error \in {"none", "SMTPException"} \cup FetchErrors

\* C7: a 4xx/5xx answer other than 429 is the last request of the call; fetch_logs
\* raises and returns no list, main sends no email and still closes the session.
C7_ErrorAbortsRun ==
    \A i \in 1..Len(hist) :
        hist[i].status \in {404, 500} =>
            /\ i = Len(hist)
            /\ hist[i].did = "raise"
            /\ error = "HTTPError"
            /\ yesterday_logs = <<>>
            /\ outbox = <<>>
            /\ pc \in (IF caller = "main" THEN {"finally", "exit_error"} ELSE {"raised"})
            /\ pc = "exit_error" => session_closed

\* main ended by an error answer that came after a page of records
C7_Witness ==
    /\ caller = "main" /\ pc = "exit_error" /\ error = "HTTPError" /\ session_closed
    /\ Len(hist) = 2 /\ hist[1].data # <<>> /\ hist[2].status = 500 /\ all_logs # <<>>

(***************************************************************************)
(* Properties of stream (under SpecStream)                                 *)
(***************************************************************************)
\* C5: a connection attempt made after an event was yielded sends that event's id,
\* the latest one, as "id".
C5_ResumeFromLastEvent ==
    query.after > 0 => query.id = yielded[query.after]

\* C6: after a connection ended, for whatever reason, the next attempt is made only
\* after retry_delay was slept.
C6_DelayBeforeReconnect ==
    (s_pc = "connect" /\ dropped # "none") => slept

(***************************************************************************)
(* Properties of the aggregation functions                                 *)
(***************************************************************************)
\* C8 (under SpecGroup): the groups' counts add up to the number of records given,
\* each count is at least 1, and first_seen is not after last_seen.
C8_GroupsCoverInput ==
    (a_pc = "done" /\ a_out.error = "none") =>
        /\ SumSeq([n \in 1..Len(a_out.rows) |-> a_out.rows[n].count]) = Len(a_in.logs)
        /\ \A n \in 1..Len(a_out.rows) :
              /\ a_out.rows[n].count >= 1
              /\ a_out.rows[n].first_seen.utc <= a_out.rows[n].last_seen.utc

\* The gaps by their definition: two timestamps of one device (a non-null device_name;
\* a record without one belongs to no device) with none of that device's in between
\* and more than the threshold apart
TimesOf(logs, d) == {logs[i].timestamp : i \in {j \in 1..Len(logs) : logs[j].device_name = d}}
ExpectedGaps(logs, threshold) ==
    {[device_name |-> d, gap_start |-> a, gap_end |-> b, gap_duration_minutes |-> b - a] :
        <<d, a, b>> \in
            {t \in ({logs[i].device_name : i \in 1..Len(logs)} \ {None}) \X GapTimes \X GapTimes :
                /\ t[2] \in TimesOf(logs, t[1]) /\ t[3] \in TimesOf(logs, t[1])
                /\ t[2] < t[3]
                /\ ~\E m \in TimesOf(logs, t[1]) : t[2] < m /\ m < t[3]
                /\ t[3] - t[2] > threshold}}
GapOut(n) == [device_name |-> a_out[n].device_name, gap_start |-> a_out[n].gap_start.utc,
              gap_end |-> a_out[n].gap_end.utc,
              gap_duration_minutes |-> a_out[n].gap_duration_minutes]
PhoneAt(t) == [timestamp |-> t, device_name |-> "phone", root |-> "x.com", reason_name |-> "",
               status |-> "default"]

\* C9 (under SpecGap): gap_analysis returns one gap record for each pair of a device's
\* records that follow each other in its timestamp order and are strictly more than
\* threshold_minutes apart, with the earlier timestamp, the later one and their
\* difference, and no other record; 10:00, 10:10, 12:00 with threshold 60 gives the one
\* gap 10:10 to 12:00 of 110 minutes.
C9_GapsAreTheLongSilences ==
    a_pc = "done" =>
        /\ {GapOut(n) : n \in 1..Len(a_out)} = ExpectedGaps(a_in.logs, a_in.threshold)
        /\ Len(a_out) = Cardinality(ExpectedGaps(a_in.logs, a_in.threshold))
        /\ \A n \in 1..Len(a_out) : a_out[n].gap_start.tz = Timezone /\ a_out[n].gap_end.tz = Timezone
        /\ a_in.logs = <<PhoneAt(600), PhoneAt(610), PhoneAt(720)>> =>
              (Len(a_out) = 1 /\ GapOut(1) = [device_name |-> "phone", gap_start |-> 610,
                                              gap_end |-> 720, gap_duration_minutes |-> 110])

\* two devices interleaved, one difference equal to the threshold, one above it
C9_Witness ==
    /\ a_pc = "done"
    /\ a_in.logs = <<PhoneAt(720), [PhoneAt(600) EXCEPT !.device_name = "laptop"], PhoneAt(610)>>
    /\ Len(a_out) = 1 /\ a_out[1].gap_duration_minutes = 110

\* The headings and the analytics block of a body, in the order they stand in it
Blocks(lines) == SelectSeq([n \in 1..Len(lines) |-> lines[n].kind],
                           LAMBDA k : k \in {"critical_head", "warning_head", "gap_head",
                                             "nothing", "analytics"})
CountKind(lines, kind) == Cardinality({n \in 1..Len(lines) : lines[n].kind = kind})

\* C10 (under SpecNotify): the subject is the one of the first non-empty input in the
\* order critical, warning, gaps, else the "no suspicious activity" one; the body holds
\* the section of every non-empty input in that order, a line per row, and ends with
\* the analytics block.
C10_SubjectAndSections ==
    (a_pc = "done" /\ a_out.sent # <<>>) =>
        LET msg == a_out.sent[1]
            c == a_in.critical_info # <<>>
            w == a_in.warning_info # <<>>
            g == a_in.gap_info # <<>>
        IN  /\ c => msg.subject = SubjectCritical
            /\ (~c /\ w) => msg.subject = SubjectWarning
            /\ (~c /\ ~w /\ g) => msg.subject = SubjectGap
            /\ (~c /\ ~w /\ ~g) => msg.subject = SubjectNothing
            /\ Blocks(msg.lines) =
                  (IF c THEN <<"critical_head">> ELSE <<>>) \o (IF w THEN <<"warning_head">> ELSE <<>>)
                  \o (IF g THEN <<"gap_head">> ELSE <<>>)
                  \o (IF ~c /\ ~w /\ ~g THEN <<"nothing">> ELSE <<>>) \o <<"analytics">>
            /\ CountKind(msg.lines, "critical") = Len(a_in.critical_info)
            /\ CountKind(msg.lines, "warning") = Len(a_in.warning_info)
            /\ CountKind(msg.lines, "gap") = Len(a_in.gap_info)
            /\ msg.lines[Len(msg.lines)].kind = "analytics"

\* critical groups and gaps together: the critical subject, both sections in the body
C10_Witness ==
    /\ a_pc = "done" /\ a_out.sent # <<>>
    /\ a_in.critical_info # <<>> /\ a_in.warning_info = <<>> /\ a_in.gap_info # <<>>
    /\ a_out.sent[1].subject = SubjectCritical
    /\ Len(a_out.sent[1].lines) = 1 + Len(a_in.critical_info) + 2 + 1

====
